---- MODULE Spec2Model ----
(***************************************************************************)
(* Model of raidmaster: the link store and the extractor                   *)
(* (link_collector.py), the formatter (message_formatter.py), and the      *)
(* message handler and the summary command that drive them (main.py).      *)
(*                                                                         *)
(* A Python string is a sequence of one-character strings, so that         *)
(* str.strip and re.sub act on characters as they do in the code.          *)
(* A Python value is a record [t, i, s]: its type name, its integer        *)
(* payload and its string payload.                                         *)
(***************************************************************************)
EXTENDS Integers, Sequences, FiniteSets, TLC

VARIABLES links, last, returned, accepted, everAccepted, wiped, tasks, attempted,
          denied, probe, cmd

vars == <<links, last, returned, accepted, everAccepted, wiped, tasks, attempted,
          denied, probe, cmd>>

-----------------------------------------------------------------------------
(* Bounds of the model.                                                    *)

\* the most records the whole store holds before add_link is no longer offered
MaxRecords == 2

\* datetime.now() reads a clock value in 1..MaxTime
MaxTime == 1

\* the number of handler coroutines that can be in progress at once
NumHandlers == 2

\* the longest list of records format_summary is applied to
MaxSummaryRecords == 3

-----------------------------------------------------------------------------
(* Python values.                                                          *)

None == [t |-> "NoneType", i |-> 0, s |-> <<>>]

PyInt(n) == [t |-> "int", i |-> n, s |-> <<>>]

PyStr(x) == [t |-> "str", i |-> 0, s |-> x]

PyDatetime(n) == [t |-> "datetime", i |-> n, s |-> <<>>]

\* isinstance(v, int)
IsInt(v) == v.t = "int"

\* isinstance(v, str)
IsStr(v) == v.t = "str"

\* a list: its items are the string payload
PyList(items) == [t |-> "list", i |-> 0, s |-> items]

\* bool(v): None, 0, "" and [] are falsy
Truthy(v) ==
    CASE v.t = "NoneType" -> FALSE
      [] v.t = "int" -> v.i # 0
      [] v.t = "str" -> v.s # <<>>
      [] v.t = "list" -> v.s # <<>>
      [] OTHER -> TRUE

-----------------------------------------------------------------------------
(* Strings: str.strip() and re.sub(r'\?.*$', '', s).                       *)

\* str.isspace for one character
IsSpace(ch) == ch \in {" ", "\n", "\t"}

RECURSIVE LStrip(_)
LStrip(s) ==
    IF s # <<>> /\ IsSpace(Head(s)) THEN LStrip(Tail(s)) ELSE s

RECURSIVE RStrip(_)
RStrip(s) ==
    IF s # <<>> /\ IsSpace(s[Len(s)]) THEN RStrip(SubSeq(s, 1, Len(s) - 1)) ELSE s

\* str.strip(): whitespace removed at both ends only
Strip(s) == RStrip(LStrip(s))

\* '.' matches any character but a newline; '$' matches at the end of the string
\* and just before a newline that ends the string.  A match of \?.*$ therefore
\* starts at a '?' after which no newline occurs except as the last character.
QueryMatchAt(s, i) ==
    /\ s[i] = "?"
    /\ \A k \in (i + 1)..Len(s) : s[k] = "\n" => k = Len(s)

\* re.sub(r'\?.*$', '', s): the leftmost match is removed; the newline that '$'
\* stopped before, if any, stays
ReSubQuery(s) ==
    LET starts == {i \in 1..Len(s) : QueryMatchAt(s, i)}
    IN  IF starts = {} THEN s
        ELSE LET i == CHOOSE j \in starts : \A k \in starts : j <= k
             IN  SubSeq(s, 1, i - 1) \o
                 (IF i < Len(s) /\ s[Len(s)] = "\n" THEN <<"\n">> ELSE <<>>)

\* cleaned_link = re.sub(r'\?.*$', '', link.strip())
CleanLink(s) == ReSubQuery(Strip(s))

-----------------------------------------------------------------------------
(* The extractor: re.finditer(TWITTER_LINK_PATTERN, text), then the cleaning *)
(* of each match.                                                            *)

\* the characters of s from position i on start with the literal lit
StartsWith(s, i, lit) ==
    /\ i + Len(lit) - 1 <= Len(s)
    /\ \A k \in 1..Len(lit) : s[i + k - 1] = lit[k]

\* substring in string
Contains(s, lit) == \E i \in 1..Len(s) : StartsWith(s, i, lit)

\* the position after the longest run, from i on, of characters that are not
\* whitespace and, when slashToo, not '/' either: [^\s]* and [^\/\s]*
RECURSIVE RunEnd(_, _, _)
RunEnd(s, i, slashToo) ==
    IF i <= Len(s) /\ ~IsSpace(s[i]) /\ ~(slashToo /\ s[i] = "/")
    THEN RunEnd(s, i + 1, slashToo)
    ELSE i

LitHttp == <<"h", "t", "t", "p">>
LitColonSlashes == <<":", "/", "/">>
LitWww == <<"w", "w", "w", ".">>
LitTwitterCom == <<"t", "w", "i", "t", "t", "e", "r", ".", "c", "o", "m">>
LitXCom == <<"x", ".", "c", "o", "m">>

\* mutant: the first path segment is optional
TWITTER_LINK_PATTERN_PathOptional(text, i) ==
    IF ~StartsWith(text, i, LitHttp) THEN 0
    ELSE
    LET p1 == IF StartsWith(text, i + 4, <<"s">>) THEN i + 5 ELSE i + 4
    IN  IF ~StartsWith(text, p1, LitColonSlashes) THEN 0
        ELSE
        LET p2 == IF StartsWith(text, p1 + 3, LitWww) THEN p1 + 7 ELSE p1 + 3
            p3 == IF StartsWith(text, p2, LitTwitterCom) THEN p2 + Len(LitTwitterCom)
                  ELSE IF StartsWith(text, p2, LitXCom) THEN p2 + Len(LitXCom)
                  ELSE 0
        IN  IF p3 = 0 THEN 0
            ELSE IF StartsWith(text, p3, <<"/">>) THEN RunEnd(text, p3 + 1, FALSE)
            ELSE p3

\* TWITTER_LINK_PATTERN =
\*   https?:\/\/(?:www\.)?(?:twitter\.com|x\.com)\/(?:[^\/\s]+)(?:\/[^\s]*)?
\* matched at position i of text, with no flags (case-sensitive): the position
\* after the match, or 0 when the pattern does not match there.  Every choice of
\* the pattern is decided by the next character, so the greedy match is the
\* only match.
TWITTER_LINK_PATTERN(text, i) ==
    IF ~StartsWith(text, i, LitHttp) THEN 0
    ELSE
    LET p1 == IF StartsWith(text, i + 4, <<"s">>) THEN i + 5 ELSE i + 4
    IN  IF ~StartsWith(text, p1, LitColonSlashes) THEN 0
        ELSE
        LET p2 == IF StartsWith(text, p1 + 3, LitWww) THEN p1 + 7 ELSE p1 + 3
            p3 == IF StartsWith(text, p2, LitTwitterCom) THEN p2 + Len(LitTwitterCom)
                  ELSE IF StartsWith(text, p2, LitXCom) THEN p2 + Len(LitXCom)
                  ELSE 0
        IN  IF p3 = 0 \/ ~StartsWith(text, p3, <<"/">>) THEN 0
            ELSE
            LET e1 == RunEnd(text, p3 + 1, TRUE)
            IN  IF e1 = p3 + 1 THEN 0
                ELSE IF StartsWith(text, e1, <<"/">>) THEN RunEnd(text, e1 + 1, FALSE)
                ELSE e1

\* [match.group(0) for match in re.finditer(TWITTER_LINK_PATTERN, text)], from
\* position i on: matches from left to right, the search going on after each
RECURSIVE FindIter(_, _)
FindIter(text, i) ==
    IF i > Len(text) THEN <<>>
    ELSE LET e == TWITTER_LINK_PATTERN(text, i)
         IN  IF e = 0 THEN FindIter(text, i + 1)
             ELSE <<SubSeq(text, i, e - 1)>> \o FindIter(text, e)

\* mutant: the matches are returned as found, query string included
RECURSIVE CleanedLinks_KeepQuery(_)
CleanedLinks_KeepQuery(found) ==
    IF found = <<>> THEN <<>>
    ELSE LET cleaned_link == Head(found)
         IN  (IF Contains(cleaned_link, LitTwitterCom) \/ Contains(cleaned_link, LitXCom)
              THEN <<cleaned_link>> ELSE <<>>)
             \o CleanedLinks_KeepQuery(Tail(found))

\* the loop over the matches: clean, keep those that name one of the two hosts
RECURSIVE CleanedLinks(_)
CleanedLinks(found) ==
    IF found = <<>> THEN <<>>
    ELSE LET cleaned_link == CleanLink(Head(found))
         IN  (IF Contains(cleaned_link, LitTwitterCom) \/ Contains(cleaned_link, LitXCom)
              THEN <<cleaned_link>> ELSE <<>>)
             \o CleanedLinks(Tail(found))

\* LinkCollector.extract_twitter_links for a str argument
extract_twitter_links(text) == CleanedLinks(FindIter(text, 1))

-----------------------------------------------------------------------------
(* The store: self.links, a dict from chat id to a list of tuples           *)
(* (link, username, timestamp).  links is a function whose domain is the    *)
(* set of chat ids that have a ledger.                                      *)

LinkCollector_init == << >>

\* any(cleaned_link == existing_link for existing_link, _, _ in self.links[chat_id])
IsDuplicate(ledger, cleaned) ==
    \E k \in 1..Len(ledger) : ledger[k][1] = PyStr(cleaned)

\* mutant: the duplicate check is skipped
add_link_NoDedup(store, chat_id, link, username, now) ==
    IF ~IsInt(chat_id) THEN [links |-> store, ret |-> FALSE]
    ELSE IF ~Truthy(link) \/ ~IsStr(link) THEN [links |-> store, ret |-> FALSE]
    ELSE IF ~Truthy(username) \/ ~IsStr(username) THEN [links |-> store, ret |-> FALSE]
    ELSE
        LET c == chat_id.i
            s1 == IF c \notin DOMAIN store THEN store @@ (c :> <<>>) ELSE store
            cleaned == CleanLink(link.s)
        IN  [links |-> [s1 EXCEPT ![c] =
                           Append(@, <<PyStr(cleaned), username, PyDatetime(now)>>)],
             ret |-> TRUE]

\* mutant: the duplicate check compares the link as passed, not the cleaned link
add_link_RawDedup(store, chat_id, link, username, now) ==
    IF ~IsInt(chat_id) THEN [links |-> store, ret |-> FALSE]
    ELSE IF ~Truthy(link) \/ ~IsStr(link) THEN [links |-> store, ret |-> FALSE]
    ELSE IF ~Truthy(username) \/ ~IsStr(username) THEN [links |-> store, ret |-> FALSE]
    ELSE
        LET c == chat_id.i
            s1 == IF c \notin DOMAIN store THEN store @@ (c :> <<>>) ELSE store
            cleaned == CleanLink(link.s)
        IN  IF IsDuplicate(s1[c], link.s)
            THEN [links |-> s1, ret |-> FALSE]
            ELSE [links |-> [s1 EXCEPT ![c] =
                               Append(@, <<PyStr(cleaned), username, PyDatetime(now)>>)],
                  ret |-> TRUE]

\* mutant: the duplicate check looks through every conversation's ledger
add_link_GlobalDedup(store, chat_id, link, username, now) ==
    IF ~IsInt(chat_id) THEN [links |-> store, ret |-> FALSE]
    ELSE IF ~Truthy(link) \/ ~IsStr(link) THEN [links |-> store, ret |-> FALSE]
    ELSE IF ~Truthy(username) \/ ~IsStr(username) THEN [links |-> store, ret |-> FALSE]
    ELSE
        LET c == chat_id.i
            s1 == IF c \notin DOMAIN store THEN store @@ (c :> <<>>) ELSE store
            cleaned == CleanLink(link.s)
        IN  IF \E d \in DOMAIN s1 : IsDuplicate(s1[d], cleaned)
            THEN [links |-> s1, ret |-> FALSE]
            ELSE [links |-> [s1 EXCEPT ![c] =
                               Append(@, <<PyStr(cleaned), username, PyDatetime(now)>>)],
                  ret |-> TRUE]

\* mutant: the new record is put at the front of the ledger
add_link_Prepend(store, chat_id, link, username, now) ==
    IF ~IsInt(chat_id) THEN [links |-> store, ret |-> FALSE]
    ELSE IF ~Truthy(link) \/ ~IsStr(link) THEN [links |-> store, ret |-> FALSE]
    ELSE IF ~Truthy(username) \/ ~IsStr(username) THEN [links |-> store, ret |-> FALSE]
    ELSE
        LET c == chat_id.i
            s1 == IF c \notin DOMAIN store THEN store @@ (c :> <<>>) ELSE store
            cleaned == CleanLink(link.s)
        IN  IF IsDuplicate(s1[c], cleaned)
            THEN [links |-> s1, ret |-> FALSE]
            ELSE [links |-> [s1 EXCEPT ![c] =
                               <<<<PyStr(cleaned), username, PyDatetime(now)>>>> \o @],
                  ret |-> TRUE]

\* mutant: the ledger is created before the link and the username are validated
add_link_EagerLedger(store, chat_id, link, username, now) ==
    IF ~IsInt(chat_id) THEN [links |-> store, ret |-> FALSE]
    ELSE
        LET c == chat_id.i
            s1 == IF c \notin DOMAIN store THEN store @@ (c :> <<>>) ELSE store
        IN  IF ~Truthy(link) \/ ~IsStr(link) THEN [links |-> s1, ret |-> FALSE]
            ELSE IF ~Truthy(username) \/ ~IsStr(username) THEN [links |-> s1, ret |-> FALSE]
            ELSE
                LET cleaned == CleanLink(link.s)
                IN  IF IsDuplicate(s1[c], cleaned)
                    THEN [links |-> s1, ret |-> FALSE]
                    ELSE [links |-> [s1 EXCEPT ![c] =
                                       Append(@, <<PyStr(cleaned), username, PyDatetime(now)>>)],
                          ret |-> TRUE]

\* LinkCollector.add_link: the store after the call and the value returned
add_link(store, chat_id, link, username, now) ==
    IF ~IsInt(chat_id) THEN [links |-> store, ret |-> FALSE]
    ELSE IF ~Truthy(link) \/ ~IsStr(link) THEN [links |-> store, ret |-> FALSE]
    ELSE IF ~Truthy(username) \/ ~IsStr(username) THEN [links |-> store, ret |-> FALSE]
    ELSE
        LET c == chat_id.i
            \* if chat_id not in self.links: self.links[chat_id] = []
            s1 == IF c \notin DOMAIN store THEN store @@ (c :> <<>>) ELSE store
            cleaned == CleanLink(link.s)
        IN  IF IsDuplicate(s1[c], cleaned)
            THEN [links |-> s1, ret |-> FALSE]
            ELSE [links |-> [s1 EXCEPT ![c] =
                               Append(@, <<PyStr(cleaned), username, PyDatetime(now)>>)],
                  ret |-> TRUE]

\* len(link_tuple) == 3 and all(isinstance(x, (str, datetime)) for x in link_tuple)
ValidTuple(r) ==
    /\ Len(r) = 3
    /\ \A k \in 1..Len(r) : r[k].t \in {"str", "datetime"}

RECURSIVE ValidLinks(_)
ValidLinks(ledger) ==
    IF ledger = <<>> THEN <<>>
    ELSE (IF ValidTuple(Head(ledger)) THEN <<Head(ledger)>> ELSE <<>>)
         \o ValidLinks(Tail(ledger))

\* mutant: the ledger's own list is returned instead of a new list
get_chat_links_Alias(store, chat_id) ==
    IF ~IsInt(chat_id) THEN [links |-> store, val |-> <<>>, ref |-> 0]
    ELSE IF chat_id.i \in DOMAIN store
         THEN [links |-> store, val |-> store[chat_id.i], ref |-> chat_id.i]
         ELSE [links |-> store, val |-> <<>>, ref |-> 0]

\* LinkCollector.get_chat_links: the store after the call (links), the list
\* returned (val) and which list object it is (ref): 0 for a list built by the
\* call, c for the list object that is ledger c
get_chat_links(store, chat_id) ==
    IF ~IsInt(chat_id) THEN [links |-> store, val |-> <<>>, ref |-> 0]
    ELSE \* links = self.links.get(chat_id, []); valid_links = [...]
         LET l == IF chat_id.i \in DOMAIN store THEN store[chat_id.i] ELSE <<>>
         IN  [links |-> store, val |-> ValidLinks(l), ref |-> 0]

\* mutant: the ledger is deleted from the dict
clear_chat_links_Delete(store, chat_id) ==
    IF ~IsInt(chat_id) THEN [links |-> store, ret |-> FALSE]
    ELSE IF chat_id.i \in DOMAIN store
         THEN [links |-> [d \in DOMAIN store \ {chat_id.i} |-> store[d]], ret |-> TRUE]
         ELSE [links |-> store, ret |-> FALSE]

\* mutant: clearing creates the ledger of a conversation that has none
clear_chat_links_Create(store, chat_id) ==
    IF ~IsInt(chat_id) THEN [links |-> store, ret |-> FALSE]
    ELSE IF chat_id.i \in DOMAIN store
         THEN [links |-> [store EXCEPT ![chat_id.i] = <<>>], ret |-> TRUE]
         ELSE [links |-> store @@ (chat_id.i :> <<>>), ret |-> FALSE]

\* LinkCollector.clear_chat_links
clear_chat_links(store, chat_id) ==
    IF ~IsInt(chat_id) THEN [links |-> store, ret |-> FALSE]
    ELSE IF chat_id.i \in DOMAIN store
         THEN [links |-> [store EXCEPT ![chat_id.i] = <<>>], ret |-> TRUE]
         ELSE [links |-> store, ret |-> FALSE]

-----------------------------------------------------------------------------
(* Inputs of the calls.                                                    *)

\* conversation ids: two integers and a value that is no integer
ChatIds == {1, 2}

ChatInputs == {PyInt(c) : c \in ChatIds} \cup {None}

\* link strings: plain, with whitespace and a query string around the same
\* link, with whitespace before the query string, with a newline after the '?'
RawLinks ==
    { <<"a">>,
      <<" ", "a", "?", "b">>,
      <<"a", " ">>,
      <<"a", " ", "?", "b">>,
      <<"?", "\n", "a">> }

LinkInputs == {PyStr(s) : s \in RawLinks} \cup {PyStr(<<>>), None}

UserInputs == {PyStr(<<"u">>), PyStr(<<>>), None}

Times == 1..MaxTime

NoReturn == [val |-> <<>>, ref |-> 0]

NoneWiped == [c \in ChatIds |-> {}]

Handlers == 1..NumHandlers

NoUpdate == [chat |-> None, type |-> "", text |-> None, username |-> None, userid |-> 0]

\* a handler slot in which no coroutine has run yet
IdleTask == [pc |-> "idle", update |-> NoUpdate, todo |-> <<>>, sent |-> 0]

\* no call of a core operation is being looked at
NoProbe == [fn |-> "", arg |-> None, done |-> FALSE, out |-> None]

\* no summary command is in progress
IdleCmd ==
    [pc |-> "idle", chat |-> None, type |-> "", got |-> <<>>, summary |-> <<>>,
     chunks |-> <<>>, outbox |-> <<>>]

RECURSIVE SumLen(_, _)
SumLen(store, dom) ==
    IF dom = {} THEN 0
    ELSE LET c == CHOOSE d \in dom : TRUE
         IN  Len(store[c]) + SumLen(store, dom \ {c})

\* number of records in the whole store
StoreSize(store) == SumLen(store, DOMAIN store)

-----------------------------------------------------------------------------
(* The store driven call by call.                                          *)
(* last is the latest call and its boolean result; returned is the list the *)
(* latest get_chat_links gave its caller; accepted and everAccepted record  *)
(* what the callers saw: per conversation the records whose add_link        *)
(* returned True since the last clear_chat_links that returned True, and    *)
(* the conversations for which some add_link returned True; attempted is    *)
(* the add_link calls made by the handlers that are in progress:            *)
(* conversation, normalized link, handler and value returned; wiped is, per *)
(* conversation, the links that a clear_chat_links call removed, kept until  *)
(* the next call; denied is the handler whose permission check returned     *)
(* False in the latest step, 0 when there is none; probe is the call of a   *)
(* public operation that is looked at; cmd is the run of the summary        *)
(* command.                                                                 *)

\* the state after construction, but for the call looked at
InitStore ==
    /\ links = LinkCollector_init
    /\ last = [op |-> "init", chat |-> None, link |-> None, user |-> None, ret |-> FALSE]
    /\ returned = NoReturn
    /\ accepted = [c \in ChatIds |-> <<>>]
    /\ everAccepted = {}
    /\ wiped = NoneWiped
    /\ tasks = [p \in Handlers |-> IdleTask]
    /\ attempted = {}
    /\ denied = 0
    /\ cmd = IdleCmd

Init == InitStore /\ probe = NoProbe

\* the values datetime.now() can give a call: add_link reads the clock only
\* when it appends
ClockReads(c, l, u) ==
    IF add_link(links, c, l, u, 1).ret THEN Times ELSE {1}

AddLink ==
    \E c \in ChatInputs, l \in LinkInputs, u \in UserInputs :
      \E t \in ClockReads(c, l, u) :
        LET r == add_link(links, c, l, u, t)
        IN  /\ StoreSize(r.links) <= MaxRecords
            /\ links' = r.links
            /\ last' = [op |-> "add", chat |-> c, link |-> l, user |-> u, ret |-> r.ret]
            /\ returned' = NoReturn
            /\ accepted' = IF r.ret
                           THEN [accepted EXCEPT ![c.i] =
                                   Append(@, <<PyStr(CleanLink(l.s)), u, PyDatetime(t)>>)]
                           ELSE accepted
            /\ everAccepted' = IF r.ret THEN everAccepted \cup {c.i} ELSE everAccepted
            /\ wiped' = NoneWiped
            /\ UNCHANGED <<tasks, attempted, denied, probe, cmd>>

GetLinks ==
    \E c \in ChatInputs :
        LET r == get_chat_links(links, c)
        IN  /\ links' = r.links
            /\ last' = [op |-> "get", chat |-> c, link |-> None, user |-> None, ret |-> FALSE]
            /\ returned' = [val |-> r.val, ref |-> r.ref]
            /\ wiped' = NoneWiped
            /\ UNCHANGED <<accepted, everAccepted, tasks, attempted, denied, probe, cmd>>

\* the caller removes the last element of the list it was given; a list object
\* that is a ledger changes in the store as well
MutateReturned ==
    /\ last.op \in {"get", "mutate"}
    /\ returned.val # <<>>
    /\ LET shorter == SubSeq(returned.val, 1, Len(returned.val) - 1)
       IN  /\ returned' = [returned EXCEPT !.val = shorter]
           /\ links' = IF returned.ref \in DOMAIN links
                        THEN [links EXCEPT ![returned.ref] = shorter]
                        ELSE links
    /\ last' = [last EXCEPT !.op = "mutate"]
    /\ wiped' = NoneWiped
    /\ UNCHANGED <<accepted, everAccepted, tasks, attempted, denied, probe, cmd>>

ClearLinks ==
    \E c \in ChatInputs :
        LET r == clear_chat_links(links, c)
        IN  /\ links' = r.links
            /\ last' = [op |-> "clear", chat |-> c, link |-> None, user |-> None, ret |-> r.ret]
            /\ returned' = NoReturn
            /\ accepted' = IF r.ret THEN [accepted EXCEPT ![c.i] = <<>>] ELSE accepted
            /\ wiped' = IF r.ret
                        THEN [NoneWiped EXCEPT ![c.i] =
                                {links[c.i][k][1] : k \in 1..Len(links[c.i])}]
                        ELSE NoneWiped
            /\ UNCHANGED <<everAccepted, tasks, attempted, denied, probe, cmd>>

Next == AddLink \/ GetLinks \/ MutateReturned \/ ClearLinks

Spec == Init /\ [][Next]_vars

-----------------------------------------------------------------------------
(* The message handler of main.py.  A handler is a coroutine: it runs        *)
(* without interruption from one await to the next, and other handlers run   *)
(* while it waits.  add_link is an ordinary function, so it holds no await.   *)

\* str(n) for n >= 0
RECURSIVE IntToStr(_)
IntToStr(n) ==
    LET digit == <<"0", "1", "2", "3", "4", "5", "6", "7", "8", "9">>[(n % 10) + 1]
    IN  IF n < 10 THEN <<digit>> ELSE Append(IntToStr(n \div 10), digit)

LinkXA == <<"h", "t", "t", "p", "s", ":", "/", "/", "x", ".", "c", "o", "m", "/", "a">>

TextOneLink == LinkXA

\* the same link twice, the first time with a query string
TextSameLinkTwice == LinkXA \o <<"?", "s", " ">> \o LinkXA

LinkTB == <<"h", "t", "t", "p", ":", "/", "/", "w", "w", "w", ".",
           "t", "w", "i", "t", "t", "e", "r", ".", "c", "o", "m", "/", "b", "/", "c">>

\* two different links on two lines, the second with a query string
TextTwoLinks == LinkXA \o <<"\n">> \o LinkTB \o <<"?", "q">>

TextNoLink == <<"h", "i">>

\* updates: conversation 1 is a group or a supergroup, conversation 2 is
\* private; a sender without username has the id 7; text None is a message
\* without text
Updates ==
    { [chat |-> PyInt(1), type |-> "group", text |-> PyStr(TextOneLink),
       username |-> PyStr(<<"u">>), userid |-> 7],
      [chat |-> PyInt(1), type |-> "supergroup", text |-> PyStr(TextSameLinkTwice),
       username |-> None, userid |-> 7],
      [chat |-> PyInt(1), type |-> "supergroup", text |-> PyStr(TextTwoLinks),
       username |-> PyStr(<<"u">>), userid |-> 7],
      [chat |-> PyInt(1), type |-> "group", text |-> None,
       username |-> PyStr(<<"u">>), userid |-> 7],
      [chat |-> PyInt(2), type |-> "private", text |-> PyStr(TextOneLink),
       username |-> PyStr(<<"u">>), userid |-> 7],
      [chat |-> PyInt(2), type |-> "private", text |-> PyStr(TextSameLinkTwice),
       username |-> None, userid |-> 7],
      [chat |-> PyInt(2), type |-> "private", text |-> PyStr(TextNoLink),
       username |-> PyStr(<<"u">>), userid |-> 7] }

\* results of bot.get_chat_member: the member's status, or the call raises
MemberStatuses ==
    {"administrator", "member", "restricted", "left", "kicked", "creator", "TelegramError"}

\* results of bot.get_chat: chat.permissions is None, or has can_send_messages
\* False or True, or the call raises
ChatPermissions == {"None", "cannot_send", "can_send", "TelegramError"}

\* results of update.message.reply_text
ReplyOutcomes == {"sent", "TelegramError", "Exception"}

\* check_bot_permissions after bot.get_chat_member returned: "True", "False",
\* or "get_chat" when the coroutine goes on to await bot.get_chat
check_bot_permissions_member(status) ==
    IF status = "TelegramError" THEN "False"
    ELSE IF status = "administrator" THEN "True"
    ELSE IF status = "member" THEN "get_chat"
    ELSE IF status \in {"restricted", "left", "kicked"} THEN "False"
    ELSE "False"

\* check_bot_permissions after bot.get_chat returned
check_bot_permissions_chat(perms) ==
    IF perms = "TelegramError" THEN FALSE
    ELSE IF perms = "None" THEN FALSE
    ELSE IF perms = "cannot_send" THEN FALSE
    ELSE TRUE

\* username = update.message.from_user.username or str(update.message.from_user.id)
SenderName(update) ==
    IF Truthy(update.username) THEN update.username ELSE PyStr(IntToStr(update.userid))

\* mutant: a confirmation is sent for every link, whatever add_link returned
RECURSIVE AddLinksUntilReply_AlwaysReply(_, _, _, _, _)
AddLinksUntilReply_AlwaysReply(store, chat_id, todo, username, now) ==
    IF todo = <<>>
    THEN [links |-> store, todo |-> <<>>, added |-> FALSE, link |-> <<>>, tried |-> {}]
    ELSE LET r == add_link(store, chat_id, PyStr(Head(todo)), username, now)
         IN  [links |-> r.links, todo |-> Tail(todo), added |-> TRUE,
              link |-> Head(todo), tried |-> {<<Head(todo), r.ret>>}]

\* the loop "for link in links: if link_collector.add_link(...)" of
\* handle_message, run until it awaits reply_text for an accepted link or runs
\* out of links.  todo is what is left of links, added tells whether a link was
\* accepted, tried is the calls of add_link made: <<link, value returned>>.
RECURSIVE AddLinksUntilReply(_, _, _, _, _)
AddLinksUntilReply(store, chat_id, todo, username, now) ==
    IF todo = <<>>
    THEN [links |-> store, todo |-> <<>>, added |-> FALSE, link |-> <<>>, tried |-> {}]
    ELSE LET r == add_link(store, chat_id, PyStr(Head(todo)), username, now)
         IN  IF r.ret
             THEN [links |-> r.links, todo |-> Tail(todo), added |-> TRUE,
                   link |-> Head(todo), tried |-> {<<Head(todo), TRUE>>}]
             ELSE LET rest == AddLinksUntilReply(r.links, chat_id, Tail(todo), username, now)
                  IN  [rest EXCEPT !.tried = @ \cup {<<Head(todo), FALSE>>}]

\* the handler p goes through its links from todo on: the store, the task and
\* the record of what the callers saw after it
RunLinks(p, update, todo, sent) ==
    \E t \in Times :
        LET c == update.chat
            r == AddLinksUntilReply(links, c, todo, SenderName(update), t)
        IN  /\ links' = r.links
            /\ tasks' = [tasks EXCEPT ![p] =
                           IF r.added
                           THEN [pc |-> "reply_text", update |-> update,
                                 todo |-> r.todo, sent |-> sent]
                           ELSE IdleTask]
            /\ attempted' =
                   IF r.added
                   THEN attempted \cup
                          {[chat |-> c.i, link |-> CleanLink(x[1]), by |-> p, ret |-> x[2]] :
                             x \in r.tried}
                   ELSE {a \in attempted : a.by # p}
            /\ accepted' = IF r.added
                           THEN [accepted EXCEPT ![c.i] =
                                   Append(@, <<PyStr(CleanLink(r.link)),
                                               SenderName(update), PyDatetime(t)>>)]
                           ELSE accepted
            /\ everAccepted' = IF r.added THEN everAccepted \cup {c.i} ELSE everAccepted

\* links = link_collector.extract_twitter_links(text), then the loop
ExtractAndRun(p, update) ==
    RunLinks(p, update, extract_twitter_links(Strip(update.text.s)), 0)

\* the handler returns; its slot is free for the next update
Finish(p) ==
    /\ tasks' = [tasks EXCEPT ![p] = IdleTask]
    /\ attempted' = {a \in attempted : a.by # p}
    /\ UNCHANGED <<links, accepted, everAccepted>>

\* mutant: the handler goes on to the links whatever the permission check said
HandleMessageChecked_IgnoreVerdict(p, has_permission) ==
    /\ ExtractAndRun(p, tasks[p].update)
    /\ denied' = IF has_permission THEN 0 ELSE p

\* "if not await check_bot_permissions(chat_id, context.bot): return", when the
\* check has returned has_permission; denied is the handler that the check
\* just turned away
HandleMessageChecked(p, has_permission) ==
    IF has_permission
    THEN ExtractAndRun(p, tasks[p].update) /\ denied' = 0
    ELSE Finish(p) /\ denied' = p

\* handle_message is called with an update and runs to its first await
Receive(p) ==
    /\ tasks[p].pc = "idle"
    /\ \E update \in Updates :
          IF ~Truthy(update.text)
          THEN Finish(p)
          ELSE IF update.type \in {"group", "supergroup"}
          THEN /\ tasks' = [tasks EXCEPT ![p] =
                              [pc |-> "get_chat_member", update |-> update,
                               todo |-> <<>>, sent |-> 0]]
               /\ UNCHANGED <<links, attempted, accepted, everAccepted>>
          ELSE ExtractAndRun(p, update)
    /\ denied' = 0
    /\ UNCHANGED <<last, returned, wiped, probe, cmd>>

\* await bot.get_chat_member(chat_id, bot.id) returns or raises
GetChatMemberReturns(p) ==
    /\ tasks[p].pc = "get_chat_member"
    /\ \E status \in MemberStatuses :
          LET verdict == check_bot_permissions_member(status)
          IN  IF verdict = "get_chat"
              THEN /\ tasks' = [tasks EXCEPT ![p].pc = "get_chat"]
                   /\ denied' = 0
                   /\ UNCHANGED <<links, attempted, accepted, everAccepted>>
              ELSE HandleMessageChecked(p, verdict = "True")
    /\ UNCHANGED <<last, returned, wiped, probe, cmd>>

\* await bot.get_chat(chat_id) returns or raises
GetChatReturns(p) ==
    /\ tasks[p].pc = "get_chat"
    /\ \E perms \in ChatPermissions :
          HandleMessageChecked(p, check_bot_permissions_chat(perms))
    /\ UNCHANGED <<last, returned, wiped, probe, cmd>>

\* await update.message.reply_text(confirmation) returns or raises: a
\* TelegramError is logged and the loop goes on, any other exception ends the
\* handler in its outer except
ReplyTextReturns(p) ==
    /\ tasks[p].pc = "reply_text"
    /\ \E outcome \in ReplyOutcomes :
          IF outcome = "Exception"
          THEN Finish(p)
          ELSE RunLinks(p, tasks[p].update, tasks[p].todo,
                        IF outcome = "sent" THEN tasks[p].sent + 1 ELSE tasks[p].sent)
    /\ denied' = 0
    /\ UNCHANGED <<last, returned, wiped, probe, cmd>>

NextHandlers ==
    \E p \in Handlers :
        \/ Receive(p)
        \/ GetChatMemberReturns(p)
        \/ GetChatReturns(p)
        \/ ReplyTextReturns(p)

SpecHandlers == Init /\ [][NextHandlers]_vars

-----------------------------------------------------------------------------
(* The extractor applied to one text, and the candidates handed to add_link  *)
(* as handle_message hands them.  probe is the call looked at: the operation, *)
(* its argument, whether it has returned, and what it returned.              *)

Schemes == {<<"h", "t", "t", "p", ":", "/", "/">>,
            <<"h", "t", "t", "p", "s", ":", "/", "/">>,
            <<"H", "T", "T", "P", "S", ":", "/", "/">>}

Wwws == {<<>>, <<"w", "w", "w", ".">>}

\* the two accepted hosts, one of them in capitals as well, and another host
Hosts == {<<"t", "w", "i", "t", "t", "e", "r", ".", "c", "o", "m">>,
          <<"x", ".", "c", "o", "m">>,
          <<"T", "w", "i", "t", "t", "e", "r", ".", "C", "O", "M">>,
          <<"t", ".", "c", "o">>}

\* what follows the host: nothing, a lone '/', a first segment, two segments, a
\* query string after a segment and after the '/', an empty first segment
Paths == {<<>>, <<"/">>, <<"/", "u">>, <<"/", "u", "/", "s">>,
          <<"/", "u", "?", "q">>, <<"/", "?", "q">>, <<"/", "/", "u">>}

\* what follows the URL in the text
Tails == {<<>>, <<" ", "o", "k">>, <<"?", "a", "\n", "b">>}

Url(scheme, www, host, path, tail) == scheme \o www \o host \o path \o tail

ExtractTexts ==
    {Url(scheme, www, host, path, tail) :
        scheme \in Schemes, www \in Wwws, host \in Hosts, path \in Paths, tail \in Tails}
    \cup {TextOneLink, TextSameLinkTwice, TextTwoLinks, TextNoLink}

InitExtract ==
    /\ InitStore
    /\ probe \in {[fn |-> "extract_twitter_links", arg |-> PyStr(text),
                   done |-> FALSE, out |-> None] : text \in ExtractTexts}

\* links = link_collector.extract_twitter_links(text)
Extract ==
    /\ probe.fn = "extract_twitter_links"
    /\ ~probe.done
    /\ probe' = [probe EXCEPT !.done = TRUE, !.out = extract_twitter_links(probe.arg.s)]
    /\ UNCHANGED <<links, last, returned, accepted, everAccepted, wiped, tasks,
                   attempted, denied, cmd>>

\* "for link in links: link_collector.add_link(chat_id, link, username)": the
\* store after the loop
RECURSIVE AddAll(_, _, _, _, _)
AddAll(store, chat_id, todo, username, now) ==
    IF todo = <<>> THEN store
    ELSE AddAll(add_link(store, chat_id, PyStr(Head(todo)), username, now).links,
                chat_id, Tail(todo), username, now)

\* the candidates go to add_link one after the other, into the empty store
StoreExtracted ==
    /\ probe.fn = "extract_twitter_links"
    /\ probe.done
    /\ probe.out # <<>>
    /\ links = LinkCollector_init
    /\ \E c \in ChatIds, t \in Times :
          links' = AddAll(links, PyInt(c), probe.out, PyStr(<<"u">>), t)
    /\ UNCHANGED <<last, returned, accepted, everAccepted, wiped, tasks,
                   attempted, denied, probe, cmd>>

NextExtract == Extract \/ StoreExtracted

SpecExtract == InitExtract /\ [][NextExtract]_vars

-----------------------------------------------------------------------------
(* The formatter of message_formatter.py.  A character outside ASCII is     *)
(* written by its code point; it is one character, as it is for len().      *)

BAR_CHART == "U+1F4CA"
THINKING_FACE == "U+1F914"
BUST_IN_SILHOUETTE == "U+1F464"
LINK_SYMBOL == "U+1F517"
CALENDAR == "U+1F4C5"
ROCKET == "U+1F680"
CHECK_MARK == "U+2705"

\* "No Twitter/X links have been shared yet! " and the thinking face
NoLinksText ==
    <<"N", "o", " ", "T", "w", "i", "t", "t", "e", "r", "/", "X", " ", "l",
    "i", "n", "k", "s", " ", "h", "a", "v", "e", " ", "b", "e", "e", "n", " ",
    "s", "h", "a", "r", "e", "d", " ", "y", "e", "t", "!", " ">>
    \o <<THINKING_FACE>>

\* the bar chart and " Twitter/X Links Summary:\n\n"
SummaryHeader ==
    <<BAR_CHART>> \o
    <<" ", "T", "w", "i", "t", "t", "e", "r", "/", "X", " ", "L", "i", "n",
    "k", "s", " ", "S", "u", "m", "m", "a", "r", "y", ":", "\n", "\n">>

\* "Use these links to engage and support! " and the rocket
ClosingLine ==
    <<"U", "s", "e", " ", "t", "h", "e", "s", "e", " ", "l", "i", "n", "k",
    "s", " ", "t", "o", " ", "e", "n", "g", "a", "g", "e", " ", "a", "n", "d",
    " ", "s", "u", "p", "p", "o", "r", "t", "!", " ">>
    \o <<ROCKET>>

\* "Sorry, there was an error formatting the summary. Please try again."
SummaryError ==
    <<"S", "o", "r", "r", "y", ",", " ", "t", "h", "e", "r", "e", " ", "w",
    "a", "s", " ", "a", "n", " ", "e", "r", "r", "o", "r", " ", "f", "o", "r",
    "m", "a", "t", "t", "i", "n", "g", " ", "t", "h", "e", " ", "s", "u", "m",
    "m", "a", "r", "y", ".", " ", "P", "l", "e", "a", "s", "e", " ", "t", "r",
    "y", " ", "a", "g", "a", "i", "n", ".">>

\* html.escape(s): & < > " ' are replaced
RECURSIVE HtmlEscape(_)
HtmlEscape(s) ==
    IF s = <<>> THEN <<>>
    ELSE (CASE Head(s) = "&" -> <<"&", "a", "m", "p", ";">>
            [] Head(s) = "<" -> <<"&", "l", "t", ";">>
            [] Head(s) = ">" -> <<"&", "g", "t", ";">>
            [] Head(s) = "\"" -> <<"&", "q", "u", "o", "t", ";">>
            [] Head(s) = "'" -> <<"&", "#", "x", "2", "7", ";">>
            [] OTHER -> <<Head(s)>>)
         \o HtmlEscape(Tail(s))

TwoDigits(n) == IF n < 10 THEN <<"0">> \o IntToStr(n) ELSE IntToStr(n)

\* timestamp.strftime("%Y-%m-%d %H:%M"): the clock value n is the n-th minute
\* of 2024-01-01
Strftime(n) ==
    <<"2", "0", "2", "4", "-", "0", "1", "-", "0", "1", " ">> \o TwoDigits(n \div 60)
    \o <<":">> \o TwoDigits(n % 60)

\* f"{v}" for a string, None, an integer and a datetime
Format(v) ==
    CASE v.t = "str" -> v.s
      [] v.t = "NoneType" -> <<"N", "o", "n", "e">>
      [] v.t = "int" -> IntToStr(v.i)
      [] OTHER -> Strftime(v.i) \o <<":", "0", "0">>

\* the position of username among the keys of user_links, 0 when it is no key
KeyIndex(user_links, username) ==
    IF \E k \in 1..Len(user_links) : user_links[k].username = username
    THEN CHOOSE k \in 1..Len(user_links) : user_links[k].username = username
    ELSE 0

\* mutant: every record opens a group of its own
RECURSIVE GroupByUser_NoMerge(_, _)
GroupByUser_NoMerge(link_list, user_links) ==
    IF link_list = <<>> THEN [raised |-> FALSE, user_links |-> user_links]
    ELSE IF Len(Head(link_list)) # 3 THEN [raised |-> TRUE, user_links |-> user_links]
    ELSE LET link == Head(link_list)[1]
             username == Head(link_list)[2]
             timestamp == Head(link_list)[3]
         IN  GroupByUser_NoMerge(Tail(link_list),
                 Append(user_links, [username |-> username,
                                     list |-> <<<<link, timestamp>>>>]))

\* the loop "for link, username, timestamp in links": user_links is a dict, its
\* keys stay in the order in which they were first inserted; it is modelled as
\* the sequence of its items.  A record that does not have three fields makes
\* the unpacking raise.
RECURSIVE GroupByUser(_, _)
GroupByUser(link_list, user_links) ==
    IF link_list = <<>> THEN [raised |-> FALSE, user_links |-> user_links]
    ELSE IF Len(Head(link_list)) # 3 THEN [raised |-> TRUE, user_links |-> user_links]
    ELSE LET link == Head(link_list)[1]
             username == Head(link_list)[2]
             timestamp == Head(link_list)[3]
             k == KeyIndex(user_links, username)
         IN  GroupByUser(Tail(link_list),
                 IF k = 0
                 THEN Append(user_links, [username |-> username,
                                          list |-> <<<<link, timestamp>>>>])
                 ELSE [user_links EXCEPT ![k].list = Append(@, <<link, timestamp>>)])

\* the inner loop "for link, timestamp in user_link_list": an entry whose
\* timestamp has no strftime raises inside the try and is passed over
RECURSIVE FormatEntries(_)
FormatEntries(user_link_list) ==
    IF user_link_list = <<>> THEN <<>>
    ELSE LET link == Head(user_link_list)[1]
             timestamp == Head(user_link_list)[2]
         IN  (IF timestamp.t = "datetime"
              THEN <<LINK_SYMBOL, " ">> \o Format(link) \o <<"\n", CALENDAR>> \o
                   <<" ", "S", "h", "a", "r", "e", "d", " ", "o", "n", ":", " ">> \o
                   Strftime(timestamp.i) \o <<"\n", "\n">>
              ELSE <<>>)
             \o FormatEntries(Tail(user_link_list))

\* the loop "for username, user_link_list in user_links.items()":
\* html.escape raises for a username that is no string
RECURSIVE FormatGroups(_)
FormatGroups(user_links) ==
    IF user_links = <<>> THEN [raised |-> FALSE, text |-> <<>>]
    ELSE IF ~IsStr(Head(user_links).username) THEN [raised |-> TRUE, text |-> <<>>]
    ELSE LET safe_username == HtmlEscape(Head(user_links).username.s)
             rest == FormatGroups(Tail(user_links))
         IN  [raised |-> rest.raised,
              text |-> <<BUST_IN_SILHOUETTE, " ">> \o safe_username \o <<":", "\n">> \o
                       FormatEntries(Head(user_links).list) \o rest.text]

\* MessageFormatter.format_summary for a list of tuples
format_summary(link_list) ==
    IF link_list = <<>> THEN NoLinksText
    ELSE LET grouped == GroupByUser(link_list, <<>>)
         IN  IF grouped.raised THEN SummaryError
             ELSE LET body == FormatGroups(grouped.user_links)
                  IN  IF body.raised THEN SummaryError
                      ELSE SummaryHeader \o body.text \o ClosingLine

\* the lists format_summary is applied to: up to MaxSummaryRecords records,
\* well formed (three links, two contributors, one of them with a character
\* that html.escape replaces) or malformed (two fields only, a timestamp that
\* is None, a timestamp that is a string)
FormatLinks == {<<"x", "/", "1">>, <<"x", "/", "2">>, <<"x", "/", "3">>}

FormatUsers == {<<"a", "l">>, <<"b", "<">>}

WellFormedRecords ==
    {<<PyStr(l), PyStr(u), PyDatetime(1)>> : l \in FormatLinks, u \in FormatUsers}

MalformedRecords ==
    { <<PyStr(<<"x", "/", "1">>), PyStr(<<"a", "l">>)>>,
      <<PyStr(<<"x", "/", "2">>), PyStr(<<"a", "l">>), None>>,
      <<PyStr(<<"x", "/", "3">>), PyStr(<<"b", "<">>), PyStr(<<"n", "o", "w">>)>> }

FormatInputs ==
    UNION {[1..n -> WellFormedRecords \cup MalformedRecords] : n \in 0..MaxSummaryRecords}

InitFormat ==
    /\ InitStore
    /\ probe \in {[fn |-> "format_summary", arg |-> link_list,
                   done |-> FALSE, out |-> None] : link_list \in FormatInputs}

\* summary = message_formatter.format_summary(links)
FormatSummary ==
    /\ probe.fn = "format_summary"
    /\ ~probe.done
    /\ probe' = [probe EXCEPT !.done = TRUE, !.out = format_summary(probe.arg)]
    /\ UNCHANGED <<links, last, returned, accepted, everAccepted, wiped, tasks,
                   attempted, denied, cmd>>

NextFormat == FormatSummary

SpecFormat == InitFormat /\ [][NextFormat]_vars

-----------------------------------------------------------------------------
(* The summary command of main.py, a coroutine as the message handler is.   *)
(* cmd is its run: where it waits (pc), the conversation and its type, the  *)
(* list get_chat_links returned (got), the summary string, the chunks that   *)
(* are still to be sent, the first of them being the one whose reply_text is *)
(* awaited, and the messages sent so far (outbox).  While the command waits, *)
(* other handlers call add_link and clear_chat_links.                        *)

MAX_MESSAGE_LENGTH == 4000

\* SUMMARY_NO_LINKS
SUMMARY_NO_LINKS ==
    <<"N", "o", " ", "T", "w", "i", "t", "t", "e", "r", "/", "X", " ", "l",
    "i", "n", "k", "s", " ", "h", "a", "v", "e", " ", "b", "e", "e", "n", " ",
    "s", "h", "a", "r", "e", "d", " ", "i", "n", " ", "t", "h", "i", "s", " ",
    "c", "h", "a", "t", " ", "y", "e", "t", "!", " ">>
    \o <<THINKING_FACE>>

\* the reply of a command that may not operate in the chat
NoPermissionText ==
    <<"I", " ", "d", "o", "n", "'", "t", " ", "h", "a", "v", "e", " ", "t",
    "h", "e", " ", "n", "e", "c", "e", "s", "s", "a", "r", "y", " ", "p", "e",
    "r", "m", "i", "s", "s", "i", "o", "n", "s", " ", "t", "o", " ", "o", "p",
    "e", "r", "a", "t", "e", " ", "i", "n", " ", "t", "h", "i", "s", " ", "c",
    "h", "a", "t", ".", " ", "P", "l", "e", "a", "s", "e", " ", "m", "a", "k",
    "e", " ", "s", "u", "r", "e", " ", "I", " ", "h", "a", "v", "e", " ", "p",
    "e", "r", "m", "i", "s", "s", "i", "o", "n", " ", "t", "o", " ", "s", "e",
    "n", "d", " ", "m", "e", "s", "s", "a", "g", "e", "s", ".">>

\* error_message of the outer except
SummaryCommandError ==
    <<"S", "o", "r", "r", "y", ",", " ", "I", " ", "e", "n", "c", "o", "u",
    "n", "t", "e", "r", "e", "d", " ", "a", "n", " ", "e", "r", "r", "o", "r",
    " ", "w", "h", "i", "l", "e", " ", "g", "e", "n", "e", "r", "a", "t", "i",
    "n", "g", " ", "t", "h", "e", " ", "s", "u", "m", "m", "a", "r", "y", ".",
    " ", "P", "l", "e", "a", "s", "e", " ", "t", "r", "y", " ", "a", "g", "a",
    "i", "n", " ", "o", "r", " ", "c", "o", "n", "t", "a", "c", "t", " ", "t",
    "h", "e", " ", "b", "o", "t", " ", "a", "d", "m", "i", "n", "i", "s", "t",
    "r", "a", "t", "o", "r", " ", "i", "f", " ", "t", "h", "e", " ", "p", "r",
    "o", "b", "l", "e", "m", " ", "p", "e", "r", "s", "i", "s", "t", "s",
    ".">>

Min(a, b) == IF a < b THEN a ELSE b

\* mutant: a remainder shorter than MAX_MESSAGE_LENGTH is not sent
Chunks_DropRemainder(summary) ==
    [k \in 1..(Len(summary) \div MAX_MESSAGE_LENGTH) |->
        SubSeq(summary, (k - 1) * MAX_MESSAGE_LENGTH + 1, k * MAX_MESSAGE_LENGTH)]

\* [summary[i:i+MAX_MESSAGE_LENGTH] for i in range(0, len(summary), MAX_MESSAGE_LENGTH)]
Chunks(summary) ==
    [k \in 1..((Len(summary) + MAX_MESSAGE_LENGTH - 1) \div MAX_MESSAGE_LENGTH) |->
        SubSeq(summary, (k - 1) * MAX_MESSAGE_LENGTH + 1,
               Min(k * MAX_MESSAGE_LENGTH, Len(summary)))]

\* the messages the command sets out to send for a summary
SummaryChunks(summary) ==
    IF Len(summary) > MAX_MESSAGE_LENGTH THEN Chunks(summary) ELSE <<summary>>

\* mutant: what is left to send is worked out again from the ledger as it is
\* when a send returns
RemainingChunks_Reread(c, store) ==
    LET now == SummaryChunks(format_summary(get_chat_links(store, c.chat).val))
    IN  SubSeq(now, Len(c.outbox) + 2, Len(now))

\* "for chunk in chunks": the loop goes on over the list built before the first
\* send
RemainingChunks(c, store) == Tail(c.chunks)

\* a link of n characters after https://x.com/
LongLink(ch, n) == <<"h", "t", "t", "p", "s", ":", "/", "/", "x", ".", "c", "o", "m", "/">> \o [k \in 1..n |-> ch]

\* the links other handlers add while the command runs: with one contributor
\* "u" the summary of the first alone has MAX_MESSAGE_LENGTH characters, that
\* of the second alone 2 * MAX_MESSAGE_LENGTH + 1; the third is short
SummaryLinkA == LongLink("a", 3879)

SummaryLinkB == LongLink("b", 7880)

SummaryLinks == {SummaryLinkA, SummaryLinkB, LinkXA}

\* the links offered to conversation c: the group has the two long links, the
\* private conversation the short one and a long one
SummaryLinksOf(c) == IF c = 1 THEN {SummaryLinkA, SummaryLinkB} ELSE {LinkXA, SummaryLinkA}

\* the type of conversation c
ChatType(c) == IF c = 1 THEN "supergroup" ELSE "private"

\* lines 132-165 up to the first await: the run after get_chat_links and
\* format_summary, waiting for its first reply_text
SummaryFetch(c) ==
    LET got == get_chat_links(links, c.chat).val
    IN  IF got = <<>>
        THEN [c EXCEPT !.pc = "reply_no_links"]
        ELSE LET summary == format_summary(got)
             IN  [c EXCEPT !.pc = "reply_chunk", !.got = got, !.summary = summary,
                           !.chunks = SummaryChunks(summary)]

\* "if not await check_bot_permissions(...)": the reply that tells so, or on
SummaryChecked(c, has_permission) ==
    IF has_permission THEN SummaryFetch(c) ELSE [c EXCEPT !.pc = "reply_denied"]

\* summary_command is called with an update and runs to its first await
SummaryCommand ==
    /\ cmd.pc \in {"idle", "done", "failed"}
    /\ \E c \in ChatIds :
          LET c0 == [IdleCmd EXCEPT !.chat = PyInt(c), !.type = ChatType(c)]
          IN  cmd' = IF c0.type \in {"group", "supergroup"}
                     THEN [c0 EXCEPT !.pc = "get_chat_member"]
                     ELSE SummaryFetch(c0)
    /\ UNCHANGED <<links, last, returned, accepted, everAccepted, wiped, tasks,
                   attempted, denied, probe>>

\* await bot.get_chat_member(chat_id, bot.id) returns or raises
SummaryGetChatMemberReturns ==
    /\ cmd.pc = "get_chat_member"
    /\ \E status \in MemberStatuses :
          LET verdict == check_bot_permissions_member(status)
          IN  cmd' = IF verdict = "get_chat" THEN [cmd EXCEPT !.pc = "get_chat"]
                     ELSE SummaryChecked(cmd, verdict = "True")
    /\ UNCHANGED <<links, last, returned, accepted, everAccepted, wiped, tasks,
                   attempted, denied, probe>>

\* await bot.get_chat(chat_id) returns or raises
SummaryGetChatReturns ==
    /\ cmd.pc = "get_chat"
    /\ \E perms \in ChatPermissions :
          cmd' = SummaryChecked(cmd, check_bot_permissions_chat(perms))
    /\ UNCHANGED <<links, last, returned, accepted, everAccepted, wiped, tasks,
                   attempted, denied, probe>>

\* await update.message.reply_text(...) returns or raises.  An exception of a
\* reply inside the outer try is caught by the outer except, which sends the
\* error message; an exception of that reply is logged.
SummaryReplyReturns ==
    /\ cmd.pc \in {"reply_denied", "reply_no_links", "reply_chunk", "reply_error"}
    /\ \E outcome \in ReplyOutcomes :
          cmd' =
            IF cmd.pc = "reply_error"
            THEN [cmd EXCEPT !.pc = "failed",
                             !.outbox = IF outcome = "sent"
                                        THEN Append(@, SummaryCommandError) ELSE @]
            ELSE IF outcome # "sent" THEN [cmd EXCEPT !.pc = "reply_error"]
            ELSE IF cmd.pc = "reply_denied"
            THEN [cmd EXCEPT !.pc = "done", !.outbox = Append(@, NoPermissionText)]
            ELSE IF cmd.pc = "reply_no_links"
            THEN [cmd EXCEPT !.pc = "done", !.outbox = Append(@, SUMMARY_NO_LINKS)]
            ELSE LET rest == RemainingChunks(cmd, links)
                 IN  [cmd EXCEPT !.pc = IF rest = <<>> THEN "done" ELSE "reply_chunk",
                                 !.outbox = Append(@, Head(cmd.chunks)),
                                 !.chunks = rest]
    /\ UNCHANGED <<links, last, returned, accepted, everAccepted, wiped, tasks,
                   attempted, denied, probe>>

\* another handler calls add_link; the clock stands at 1 while the command runs
OtherAddLink ==
    /\ \E c \in ChatIds :
         \E l \in SummaryLinksOf(c) :
            links' = add_link(links, PyInt(c), PyStr(l), PyStr(<<"u">>), 1).links
    /\ UNCHANGED <<last, returned, accepted, everAccepted, wiped, tasks,
                   attempted, denied, probe, cmd>>

\* another handler calls clear_chat_links
OtherClearLinks ==
    /\ \E c \in ChatIds : links' = clear_chat_links(links, PyInt(c)).links
    /\ UNCHANGED <<last, returned, accepted, everAccepted, wiped, tasks,
                   attempted, denied, probe, cmd>>

NextSummary ==
    \/ SummaryCommand
    \/ SummaryGetChatMemberReturns
    \/ SummaryGetChatReturns
    \/ SummaryReplyReturns
    \/ OtherAddLink
    \/ OtherClearLinks

SpecSummary == Init /\ [][NextSummary]_vars

-----------------------------------------------------------------------------
(* The public operations called with arguments of any type.  What a call    *)
(* gives is a record: whether an exception leaves the call (raised), the     *)
(* type of the value returned and the value.                                 *)

Return(type, val) == [raised |-> FALSE, type |-> type, val |-> val]

Raise == [raised |-> TRUE, type |-> "", val |-> <<>>]

\* the try block of extract_twitter_links: re.finditer raises TypeError for a
\* text that is no string
Try_extract_twitter_links(text) ==
    IF ~IsStr(text) THEN Raise ELSE Return("list", extract_twitter_links(text.s))

\* mutant: the exception of the try block leaves the call
Call_extract_twitter_links_NoExcept(text) == Try_extract_twitter_links(text)

\* extract_twitter_links with its "except Exception: return []"
Call_extract_twitter_links(text) ==
    LET r == Try_extract_twitter_links(text)
    IN  IF r.raised THEN Return("list", <<>>) ELSE r

\* the try block of format_summary for an argument that is no list: len()
\* raises for None, an integer and a datetime; the characters of a non-empty
\* string cannot be unpacked into three names
Try_format_summary(link_list) ==
    IF link_list.t = "str" /\ link_list.s = <<>> THEN Return("str", NoLinksText)
    ELSE Raise

\* format_summary with its outer "except Exception"
Call_format_summary(link_list) ==
    IF link_list.t = "list" THEN Return("str", format_summary(link_list.s))
    ELSE LET r == Try_format_summary(link_list)
         IN  IF r.raised THEN Return("str", SummaryError) ELSE r

\* the try block of format_link_added: html.escape raises for a username that
\* is truthy and no string
Try_format_link_added(username) ==
    LET name == IF ~Truthy(username)
                THEN PyStr(<<"U", "n", "k", "n", "o", "w", "n", " ", "U", "s", "e", "r">>)
                ELSE username
    IN  IF ~IsStr(name) THEN Raise
        ELSE Return("str",
                 <<CHECK_MARK>> \o
                 <<" ", "T", "w", "i", "t", "t", "e", "r", "/", "X", " ", "l", "i", "n", "k", " ", "f", "r", "o", "m", " ">> \o
                 HtmlEscape(name.s) \o
                 <<" ", "h", "a", "s", " ", "b", "e", "e", "n", " ", "c", "o", "l", "l", "e", "c", "t", "e", "d", "!">>)

\* format_link_added with its "except Exception"
Call_format_link_added(username) ==
    LET r == Try_format_link_added(username)
    IN  IF r.raised
        THEN Return("str", <<CHECK_MARK>> \o
                 <<" ", "T", "w", "i", "t", "t", "e", "r", "/", "X", " ", "l", "i", "n", "k", " ", "h", "a", "s", " ", "b", "e", "e", "n", " ", "c", "o", "l", "l", "e", "c", "t", "e", "d", "!">>)
        ELSE r

\* arguments: None, an integer, the empty and a non-empty string, a datetime,
\* the empty list and a list of one record
CoreValues ==
    { None, PyInt(1), PyStr(<<>>), PyStr(<<"a">>), PyDatetime(1), PyList(<<>>),
      PyList(<< <<PyStr(<<"a">>), PyStr(<<"a">>), PyDatetime(1)>> >>) }

CallExtract ==
    /\ \E text \in CoreValues \cup {PyStr(TextSameLinkTwice)} :
          probe' = [fn |-> "extract_twitter_links", arg |-> <<text>>, done |-> TRUE,
                    out |-> Call_extract_twitter_links(text)]
    /\ UNCHANGED <<links, last, returned, accepted, everAccepted, wiped, tasks,
                   attempted, denied, cmd>>

\* no statement of add_link's try block raises for these arguments
CallAddLink ==
    /\ \E chat_id \in CoreValues, link \in CoreValues, username \in CoreValues :
         \E t \in ClockReads(chat_id, link, username) :
            LET r == add_link(links, chat_id, link, username, t)
            IN  /\ links' = r.links
                /\ probe' = [fn |-> "add_link", arg |-> <<chat_id, link, username>>,
                             done |-> TRUE, out |-> Return("bool", r.ret)]
    /\ UNCHANGED <<last, returned, accepted, everAccepted, wiped, tasks,
                   attempted, denied, cmd>>

CallGetChatLinks ==
    /\ \E chat_id \in CoreValues :
          LET r == get_chat_links(links, chat_id)
          IN  /\ links' = r.links
              /\ probe' = [fn |-> "get_chat_links", arg |-> <<chat_id>>, done |-> TRUE,
                           out |-> Return("list", r.val)]
    /\ UNCHANGED <<last, returned, accepted, everAccepted, wiped, tasks,
                   attempted, denied, cmd>>

CallClearChatLinks ==
    /\ \E chat_id \in CoreValues :
          LET r == clear_chat_links(links, chat_id)
          IN  /\ links' = r.links
              /\ probe' = [fn |-> "clear_chat_links", arg |-> <<chat_id>>, done |-> TRUE,
                           out |-> Return("bool", r.ret)]
    /\ UNCHANGED <<last, returned, accepted, everAccepted, wiped, tasks,
                   attempted, denied, cmd>>

CallFormatSummary ==
    /\ \E link_list \in CoreValues \cup {PyList(<<r>>) : r \in MalformedRecords} :
          probe' = [fn |-> "format_summary", arg |-> <<link_list>>, done |-> TRUE,
                    out |-> Call_format_summary(link_list)]
    /\ UNCHANGED <<links, last, returned, accepted, everAccepted, wiped, tasks,
                   attempted, denied, cmd>>

CallFormatLinkAdded ==
    /\ \E username \in CoreValues \cup {PyStr(u) : u \in FormatUsers} :
          probe' = [fn |-> "format_link_added", arg |-> <<username>>, done |-> TRUE,
                    out |-> Call_format_link_added(username)]
    /\ UNCHANGED <<links, last, returned, accepted, everAccepted, wiped, tasks,
                   attempted, denied, cmd>>

NextCore ==
    \/ CallExtract
    \/ CallAddLink
    \/ CallGetChatLinks
    \/ CallClearChatLinks
    \/ CallFormatSummary
    \/ CallFormatLinkAdded

SpecCore == Init /\ [][NextCore]_vars

-----------------------------------------------------------------------------
(* Properties of the store.                                                *)

\* the ledger of conversation c, empty when there is none
Ledger(store, c) == IF c \in DOMAIN store THEN store[c] ELSE <<>>

\* the call recorded in l has an integer chat id and non-empty string link and user
ValidCall(l) ==
    /\ IsInt(l.chat)
    /\ IsStr(l.link) /\ l.link.s # <<>>
    /\ IsStr(l.user) /\ l.user.s # <<>>

\* C1: in every reachable state no ledger holds two records with the same
\* stored link string.
C1_NoDuplicateLinks ==
    \A c \in DOMAIN links :
        \A j, k \in 1..Len(links[c]) :
            links[c][j][1] = links[c][k][1] => j = k

\* a call with a link that normalizes to a stored one was just rejected, in a
\* ledger that holds two records
C1_Witness ==
    /\ last.op = "add" /\ ValidCall(last) /\ ~last.ret
    /\ Len(Ledger(links, last.chat.i)) = 2
    /\ IsDuplicate(links[last.chat.i], CleanLink(last.link.s))

\* number of records of the list with the link string
CountLink(list, link) ==
    Cardinality({k \in 1..Len(list) : list[k][1].s = link})

\* C2: when handlers that call add_link for the same conversation with the same
\* normalized link run interleaved at their awaits, exactly one of the calls
\* returns True and the ledger holds exactly one record for the link.
C2_OneCallWins ==
    /\ \A a \in attempted :
          /\ CountLink(accepted[a.chat], a.link) = 1
          /\ CountLink(Ledger(links, a.chat), a.link) = 1
    /\ \A c \in ChatIds :
          \A k \in 1..Len(accepted[c]) :
              /\ CountLink(accepted[c], accepted[c][k][1].s) = 1
              /\ CountLink(Ledger(links, c), accepted[c][k][1].s) = 1

\* two handlers are in progress for the same conversation, both called add_link
\* with the same link, one got True and the other False
C2_Witness ==
    \E a, b \in attempted :
        /\ a.chat = b.chat /\ a.link = b.link /\ a.by # b.by
        /\ a.ret /\ ~b.ret
        /\ tasks[a.by].pc = "reply_text" /\ tasks[b.by].pc = "reply_text"
        /\ tasks[a.by].update.chat = PyInt(a.chat)
        /\ tasks[b.by].update.chat = PyInt(a.chat)
        /\ tasks[a.by].update.type # "private"

\* C3: for valid inputs add_link returns True exactly when the normalized link
\* is not in the conversation's ledger at the time of the call, and then the
\* ledger is the old ledger with the record (normalized link, contributor,
\* timestamp) appended at its end; a second call with the same normalized link
\* right after an accepted one returns False and leaves a ledger of one record
\* at length 1.
C3_AddLinkContract ==
    [][ (last'.op = "add" /\ ValidCall(last')) =>
          LET c == last'.chat.i
              n == CleanLink(last'.link.s)
              before == Ledger(links, c)
          IN  /\ last'.ret = ~(\E k \in 1..Len(before) : before[k][1].s = n)
              /\ last'.ret =>
                    /\ c \in DOMAIN links'
                    /\ \E t \in Times :
                         links'[c] = Append(before, <<PyStr(n), last'.user, PyDatetime(t)>>)
              /\ ( /\ last.op = "add" /\ ValidCall(last) /\ last.ret
                   /\ last.chat = last'.chat
                   /\ CleanLink(last.link.s) = n )
                  => /\ ~last'.ret
                     /\ get_chat_links(links', last'.chat).val = get_chat_links(links, last.chat).val
                     /\ (Len(before) = 1 => Len(get_chat_links(links', last'.chat).val) = 1)
      ]_vars

\* the same normalized link was offered twice in a row under two spellings:
\* accepted, then rejected, and the ledger holds one record
C3_Witness ==
    /\ last.op = "add" /\ ValidCall(last) /\ ~last.ret
    /\ last.link.s # CleanLink(last.link.s)
    /\ Len(Ledger(links, last.chat.i)) = 1
    /\ links[last.chat.i][1][1].s = CleanLink(last.link.s)

\* C4: whenever add_link returns False the whole store is as it was: no record
\* is added to any ledger and no ledger is created.
C4_RejectedAddChangesNothing ==
    [][ (last'.op = "add" /\ ~last'.ret) => links' = links ]_vars

\* a call with an integer chat id that has no ledger was rejected for its link
\* or its user, and the conversation still has no ledger
C4_Witness ==
    /\ last.op = "add" /\ ~last.ret
    /\ IsInt(last.chat) /\ last.chat.i \notin DOMAIN links
    /\ links # LinkCollector_init

\* C5: add_link and clear_chat_links on conversation c leave the ledger of
\* every other conversation as it was, and a link not in c's ledger is accepted
\* for c whether or not another conversation holds it.
C5_OtherConversationsUntouched ==
    [][ (last'.op \in {"add", "clear"} /\ IsInt(last'.chat)) =>
          LET c == last'.chat.i
          IN  /\ \A d \in ChatIds \ {c} :
                    /\ d \in DOMAIN links' <=> d \in DOMAIN links
                    /\ Ledger(links', d) = Ledger(links, d)
              /\ ( /\ last'.op = "add" /\ ValidCall(last')
                   /\ ~IsDuplicate(Ledger(links, c), CleanLink(last'.link.s)) )
                  => last'.ret
      ]_vars

\* a link was just accepted for one conversation while the ledger of the other
\* conversation holds the same link
C5_Witness ==
    /\ last.op = "add" /\ ValidCall(last) /\ last.ret
    /\ \E d \in DOMAIN links \ {last.chat.i} :
          IsDuplicate(links[d], CleanLink(last.link.s))

\* C6: get_chat_links(c) returns exactly the records accepted for c since its
\* last clear, in the order their add_link calls succeeded, and an empty list
\* for a conversation without a ledger or an id that is no integer; the call
\* leaves the store as it was, and a caller that modifies the returned list
\* does not change the store.
C6_GetLinksContract ==
    [][ /\ last'.op = "get" =>
              /\ links' = links
              /\ returned'.val =
                    (IF IsInt(last'.chat) THEN accepted[last'.chat.i] ELSE <<>>)
              /\ (~IsInt(last'.chat) \/ last'.chat.i \notin DOMAIN links)
                    => returned'.val = <<>>
        /\ last'.op = "mutate" => links' = links
      ]_vars

\* the caller shortened the list it got for a conversation whose ledger holds
\* two records, and the ledger still holds both
C6_Witness ==
    /\ last.op = "mutate" /\ IsInt(last.chat)
    /\ Len(Ledger(links, last.chat.i)) = 2
    /\ Len(returned.val) = 1
    /\ accepted[last.chat.i] = links[last.chat.i]

\* C7: clear_chat_links(c) returns True if c has a ledger and False otherwise;
\* after it returned True get_chat_links(c) is empty and the ledger is still
\* present, so that a repeated clear returns True again, and a following
\* add_link of a link that the clear removed returns True.
C7_ClearLinksContract ==
    [][ /\ last'.op = "clear" =>
              /\ last'.ret <=> (IsInt(last'.chat) /\ last'.chat.i \in DOMAIN links)
              /\ last'.ret =>
                    /\ last'.chat.i \in DOMAIN links'
                    /\ get_chat_links(links', last'.chat).val = <<>>
                    /\ clear_chat_links(links', last'.chat).ret
        /\ ( /\ last.op = "clear" /\ last.ret
             /\ last'.op = "add" /\ ValidCall(last') /\ last'.chat = last.chat
             /\ PyStr(CleanLink(last'.link.s)) \in wiped[last.chat.i] )
            => last'.ret
      ]_vars

\* a ledger of two records was cleared and is present and empty
C7_Witness ==
    /\ last.op = "clear" /\ last.ret
    /\ Cardinality(wiped[last.chat.i]) = 2
    /\ last.chat.i \in DOMAIN links /\ links[last.chat.i] = <<>>

\* C8: a conversation has a ledger exactly when some earlier add_link for it
\* returned True; no operation removes a ledger, so clear_chat_links(c) returns
\* True exactly when some add_link for c has been accepted.
C8_LedgerIffEverAccepted ==
    /\ DOMAIN links = everAccepted
    /\ last.op = "clear" =>
          (last.ret <=> (IsInt(last.chat) /\ last.chat.i \in everAccepted))

\* one conversation's ledger was cleared and is still there, the other
\* conversation was asked to clear without ever having had a link accepted
C8_Witness ==
    /\ last.op = "clear" /\ ~last.ret /\ IsInt(last.chat)
    /\ \E d \in everAccepted : links[d] = <<>>

\* C9: the normalization is idempotent for every non-empty link, so an add_link
\* whose link equals a link string stored in the conversation's ledger returns
\* False and adds no record.
C9_StoredLinkIsRejected ==
    [][ (last'.op = "add" /\ ValidCall(last')) =>
          /\ CleanLink(CleanLink(last'.link.s)) = CleanLink(last'.link.s)
          /\ (\E k \in 1..Len(Ledger(links, last'.chat.i)) :
                 links[last'.chat.i][k][1] = last'.link)
                => (~last'.ret /\ links' = links)
      ]_vars

\* C10: every stored record has a link without '?' and without leading or
\* trailing whitespace, and a contributor that is a non-empty string.
C10_StoredRecordsNormalized ==
    \A c \in DOMAIN links :
        \A k \in 1..Len(links[c]) :
            LET link == links[c][k][1].s
                user == links[c][k][2]
            IN  /\ \A j \in 1..Len(link) : link[j] # "?"
                /\ link # <<>> => (~IsSpace(link[1]) /\ ~IsSpace(link[Len(link)]))
                /\ IsStr(user) /\ user.s # <<>>

-----------------------------------------------------------------------------
(* Properties of the extractor.                                            *)

\* str.lower() for the ASCII letters
LowerOf ==
    ("A" :> "a") @@ ("B" :> "b") @@ ("C" :> "c") @@ ("D" :> "d") @@ ("E" :>
    "e") @@ ("F" :> "f") @@ ("G" :> "g") @@ ("H" :> "h") @@ ("I" :> "i") @@
    ("J" :> "j") @@ ("K" :> "k") @@ ("L" :> "l") @@ ("M" :> "m") @@ ("N" :>
    "n") @@ ("O" :> "o") @@ ("P" :> "p") @@ ("Q" :> "q") @@ ("R" :> "r") @@
    ("S" :> "s") @@ ("T" :> "t") @@ ("U" :> "u") @@ ("V" :> "v") @@ ("W" :>
    "w") @@ ("X" :> "x") @@ ("Y" :> "y") @@ ("Z" :> "z")

Lower(s) == [k \in 1..Len(s) |-> IF s[k] \in DOMAIN LowerOf THEN LowerOf[s[k]] ELSE s[k]]

\* the extractor has returned for the text it was called with
Extracted == probe.fn = "extract_twitter_links" /\ probe.done

\* C11: the extractor matches the scheme and the host whatever their case: a
\* text yields as many candidates as its lower-case form does, so
\* HTTPS://Twitter.COM/user is returned as https://twitter.com/user is.
C11_SchemeAndHostAnyCase ==
    Extracted => Len(probe.out) = Len(extract_twitter_links(Lower(probe.arg.s)))

\* the text is a URL of the model with a lower-case scheme and an accepted
\* lower-case host, followed by rest
IsAcceptedUrlWith(text, rest) ==
    \E scheme \in Schemes, www \in Wwws, host \in {LitTwitterCom, LitXCom} :
        /\ scheme = Lower(scheme)
        /\ text = scheme \o www \o host \o rest

\* a '/' and then a character that is neither '/' nor whitespace
HasFirstSegment(rest) ==
    /\ Len(rest) >= 2
    /\ rest[1] = "/"
    /\ rest[2] # "/" /\ ~IsSpace(rest[2])

\* C12 as stated: the path segment is optional, so a URL that is only a scheme
\* and an accepted host, with or without www., is returned as a candidate.
C12_HostOnlyUrlIsReturned ==
    (Extracted /\ IsAcceptedUrlWith(probe.arg.s, <<>>)) => probe.out = <<probe.arg.s>>

\* C12: the first path segment is required: a URL with a lower-case scheme and
\* an accepted host yields a candidate exactly when the host is followed by
\* '/' and a character that is neither '/' nor whitespace; a URL that ends
\* after the host or after a lone '/' yields none.
C12_FirstSegmentRequired ==
    Extracted =>
        \A path \in Paths, tail \in Tails :
            IsAcceptedUrlWith(probe.arg.s, path \o tail) =>
                /\ (probe.out # <<>>) <=> HasFirstSegment(path \o tail)
                /\ Len(probe.out) <= 1

\* a URL that ends after the host has been looked at and gave no candidate
C12_Witness ==
    /\ Extracted
    /\ IsAcceptedUrlWith(probe.arg.s, <<>>)
    /\ probe.out = <<>>

\* the elements of a sequence
Range(seq) == {seq[k] : k \in 1..Len(seq)}

\* the link strings of the records of a ledger
StoredLinks(ledger) == {ledger[k][1].s : k \in 1..Len(ledger)}

\* C18: every string the extractor returns holds no '?' and no whitespace and
\* is left as it is by the store's normalization; when the candidates have gone
\* to add_link, the links stored are exactly the strings the extractor
\* returned, and each is trimmed and without query string.
C18_ExtractedLinksAreNormalized ==
    Extracted =>
        /\ \A k \in 1..Len(probe.out) :
              /\ \A j \in 1..Len(probe.out[k]) :
                    probe.out[k][j] # "?" /\ ~IsSpace(probe.out[k][j])
              /\ CleanLink(probe.out[k]) = probe.out[k]
        /\ \A c \in DOMAIN links :
              /\ StoredLinks(links[c]) = Range(probe.out)
              /\ \A x \in StoredLinks(links[c]) :
                    ~Contains(x, <<"?">>) /\ Strip(x) = x

\* a text with a query string after a link has been extracted from and its
\* candidates stored
C18_Witness ==
    /\ Extracted
    /\ Contains(probe.arg.s, <<"?">>)
    /\ \E c \in DOMAIN links : links[c] # <<>>

-----------------------------------------------------------------------------
(* Properties of the formatter.                                            *)

\* format_summary has returned for the list it was called with
Formatted == probe.fn = "format_summary" /\ probe.done

\* str.split("\n")
RECURSIVE Lines(_)
Lines(s) ==
    IF \E k \in 1..Len(s) : s[k] = "\n"
    THEN LET k == CHOOSE j \in 1..Len(s) : s[j] = "\n" /\ \A i \in 1..(j - 1) : s[i] # "\n"
         IN  <<SubSeq(s, 1, k - 1)>> \o Lines(SubSeq(s, k + 1, Len(s)))
    ELSE <<s>>

IsHeader(line) == line # <<>> /\ line[1] = BUST_IN_SILHOUETTE

IsLinkLine(line) == line # <<>> /\ line[1] = LINK_SYMBOL

IsMark(line) == IsHeader(line) \/ IsLinkLine(line)

\* the contributor lines and the link lines of a summary, in its order
Marks(summary) == SelectSeq(Lines(summary), IsMark)

\* the line that opens the group of contributor u, and the line of link l
HeaderLine(u) == <<BUST_IN_SILHOUETTE, " ">> \o HtmlEscape(u) \o <<":">>

LinkLine(l) == <<LINK_SYMBOL, " ">> \o l

\* a record (link, username, timestamp) of two strings and a datetime
WellFormed(r) ==
    /\ Len(r) = 3
    /\ IsStr(r[1]) /\ IsStr(r[2]) /\ r[3].t = "datetime"

\* the contributors of a list of well-formed records, each once, in the order
\* of their first record
RECURSIVE FirstUsers(_, _)
FirstUsers(recs, seen) ==
    IF recs = <<>> THEN <<>>
    ELSE IF Head(recs)[2].s \in seen THEN FirstUsers(Tail(recs), seen)
    ELSE <<Head(recs)[2].s>> \o FirstUsers(Tail(recs), seen \cup {Head(recs)[2].s})

\* the links of contributor u in a list of well-formed records, in its order
RECURSIVE LinksOf(_, _)
LinksOf(recs, u) ==
    IF recs = <<>> THEN <<>>
    ELSE (IF Head(recs)[2].s = u THEN <<Head(recs)[1].s>> ELSE <<>>)
         \o LinksOf(Tail(recs), u)

\* the link lines from the start of marks up to the next contributor line
RECURSIVE LeadingLinks(_)
LeadingLinks(marks) ==
    IF marks = <<>> \/ IsHeader(Head(marks)) THEN <<>>
    ELSE <<Head(marks)>> \o LeadingLinks(Tail(marks))

\* the link lines that follow the contributor line header
RECURSIVE LinksUnder(_, _)
LinksUnder(marks, header) ==
    IF marks = <<>> THEN <<>>
    ELSE IF Head(marks) = header THEN LeadingLinks(Tail(marks))
    ELSE LinksUnder(Tail(marks), header)

\* C13: for a non-empty list of well-formed records the summary names the
\* contributors in the order of their first record, each contributor line once,
\* and under each contributor line come that contributor's links in the order
\* they have in the list.
C13_GroupsInFirstAppearanceOrder ==
    (Formatted /\ probe.arg # <<>> /\ \A k \in 1..Len(probe.arg) : WellFormed(probe.arg[k])) =>
        LET marks == Marks(probe.out)
            users == FirstUsers(probe.arg, {})
        IN  /\ SelectSeq(marks, IsHeader) = [k \in 1..Len(users) |-> HeaderLine(users[k])]
            /\ \A k \in 1..Len(users) :
                  LinksUnder(marks, HeaderLine(users[k])) =
                      [j \in 1..Len(LinksOf(probe.arg, users[k])) |->
                          LinkLine(LinksOf(probe.arg, users[k])[j])]

\* the summary of (x/1, al), (x/2, b<), (x/3, al): al with x/1 and x/3, then
\* b< with x/2
C13_Witness ==
    /\ Formatted
    /\ probe.arg = << <<PyStr(<<"x", "/", "1">>), PyStr(<<"a", "l">>), PyDatetime(1)>>,
                      <<PyStr(<<"x", "/", "2">>), PyStr(<<"b", "<">>), PyDatetime(1)>>,
                      <<PyStr(<<"x", "/", "3">>), PyStr(<<"a", "l">>), PyDatetime(1)>> >>
    /\ Marks(probe.out) = << HeaderLine(<<"a", "l">>), LinkLine(<<"x", "/", "1">>), LinkLine(<<"x", "/", "3">>),
                             HeaderLine(<<"b", "<">>), LinkLine(<<"x", "/", "2">>) >>

\* what the summary shows of one well-formed record
Entry(r) ==
    LinkLine(r[1].s) \o <<"\n", CALENDAR>> \o
    <<" ", "S", "h", "a", "r", "e", "d", " ", "o", "n", ":", " ">> \o
    Strftime(r[3].i) \o <<"\n", "\n">>

EndsWith(s, lit) == Len(lit) <= Len(s) /\ SubSeq(s, Len(s) - Len(lit) + 1, Len(s)) = lit

\* C14: when one record of the list is malformed (it has not three fields, or
\* its timestamp cannot be formatted), format_summary passes over that record
\* alone: the result is not the apology string, it shows every well-formed
\* record and it ends with the closing line.
C14_MalformedRecordSkippedAlone ==
    (Formatted /\ Cardinality({k \in 1..Len(probe.arg) : ~WellFormed(probe.arg[k])}) = 1) =>
        /\ probe.out # SummaryError
        /\ \A k \in 1..Len(probe.arg) :
              WellFormed(probe.arg[k]) => Contains(probe.out, Entry(probe.arg[k]))
        /\ EndsWith(probe.out, ClosingLine)

-----------------------------------------------------------------------------
(* Properties of the summary command.                                      *)

\* "".join(parts)
RECURSIVE Flatten(_)
Flatten(parts) ==
    IF parts = <<>> THEN <<>> ELSE Head(parts) \o Flatten(Tail(parts))

\* C15: for a summary string of n >= 1 characters the command sends
\* ceil(n / 4000) messages one after the other: the messages sent and those
\* still to be sent are that many, each has between 1 and 4000 characters,
\* put together in send order they are the summary string, and when the
\* command is done none is left to send.
C15_ChunksCoverSummary ==
    (cmd.summary # <<>> /\ cmd.pc \in {"reply_chunk", "reply_error", "done"}) =>
        LET n == Len(cmd.summary)
            all == cmd.outbox \o cmd.chunks
        IN  /\ n >= 1
            /\ Len(all) * 4000 >= n /\ (Len(all) - 1) * 4000 < n
            /\ \A k \in 1..Len(all) : Len(all[k]) >= 1 /\ Len(all[k]) <= 4000
            /\ Flatten(all) = cmd.summary
            /\ cmd.pc = "done" => cmd.chunks = <<>>

\* a summary of 8001 characters has been sent as three messages, the last of
\* one character
C15_Witness ==
    /\ cmd.pc = "done"
    /\ Len(cmd.summary) > 2 * MAX_MESSAGE_LENGTH
    /\ Len(cmd.outbox) = 3
    /\ Len(cmd.outbox[3]) < MAX_MESSAGE_LENGTH
    /\ Len(cmd.outbox[1]) = MAX_MESSAGE_LENGTH

\* the command waits for the reply_text of a summary message
Sending == cmd.pc = "reply_chunk"

\* C20: all summary messages of one run come from the list that its
\* get_chat_links call returned: the summary is the formatting of that list,
\* the messages sent and still to be sent are its chunks, and a step of another
\* handler that changes the store while the command is sending changes
\* nothing of the run; a send only moves the first chunk to the messages sent.
C20_SummaryFromOneSnapshot ==
    /\ [](Sending =>
            /\ cmd.summary = format_summary(cmd.got)
            /\ cmd.outbox \o cmd.chunks = SummaryChunks(cmd.summary))
    /\ [][/\ (~Sending /\ Sending') =>
                cmd'.got = ValidLinks(Ledger(links, cmd'.chat.i))
          /\ Sending =>
                /\ cmd'.got = cmd.got /\ cmd'.summary = cmd.summary
                /\ cmd'.outbox \o cmd'.chunks = cmd.outbox \o cmd.chunks
                /\ links' # links => cmd' = cmd]_vars

\* the command has sent a first summary message and waits for the next while
\* the ledger no longer is what the summary was made from
C20_Witness ==
    /\ Sending
    /\ cmd.outbox # <<>>
    /\ get_chat_links(links, cmd.chat).val # cmd.got

-----------------------------------------------------------------------------
(* Properties of the message handler.                                      *)

GroupTypes == {"group", "supergroup"}

\* the handler p waits for bot.get_chat_member or bot.get_chat
Checking(p) == tasks[p].pc \in {"get_chat_member", "get_chat"}

\* C17: for a text message in a group or supergroup the handler calls add_link
\* only after the permission check returned True for that message: no step
\* before the end of the check changes the store, a check that returns False
\* (or fails) leaves the store as it is and ends the handler without a
\* confirmation, and every change of the store is made by a handler of a
\* private conversation or by one whose check has just returned True or had
\* returned True before its earlier confirmation.
C17_AddLinkOnlyAfterPermission ==
    [][/\ \A p \in Handlers :
            /\ denied' = p =>
                  /\ Checking(p)
                  /\ links' = links
                  /\ tasks'[p].pc = "idle"
            /\ (tasks[p].pc = "idle" /\ tasks'[p].pc # "idle"
                  /\ tasks'[p].update.type \in GroupTypes) =>
                  /\ links' = links
                  /\ tasks'[p].pc = "get_chat_member"
            /\ (tasks[p].pc = "get_chat_member" /\ tasks'[p].pc = "get_chat") =>
                  links' = links
       /\ links' # links =>
            \E p \in Handlers :
                /\ tasks'[p].pc = "reply_text"
                /\ tasks'[p].update.chat.i \in DOMAIN links'
                /\ Ledger(links, tasks'[p].update.chat.i) # links'[tasks'[p].update.chat.i]
                /\ tasks'[p].update.type \in GroupTypes =>
                      /\ Checking(p) \/ tasks[p].pc = "reply_text"
                      /\ denied' # p]_vars

\* a permission check has just returned False for a handler while the ledger
\* of the group holds a link and another handler of the group waits for its
\* confirmation
C17_Witness ==
    /\ denied \in Handlers
    /\ tasks[denied].pc = "idle"
    /\ Ledger(links, 1) # <<>>
    /\ \E q \in Handlers :
          tasks[q].pc = "reply_text" /\ tasks[q].update.type \in GroupTypes

\* the handler p works on the message that holds the link LinkXA twice
HasSameLinkTwice(task) == task.update.text = PyStr(TextSameLinkTwice)

\* C19: the extractor returns one candidate per match, in text order, repeats
\* included, and the handler leaves the deduplication to the store: for a
\* message that holds the same link twice, not yet in the ledger when the
\* handler comes to it, the step that extracts adds one record and awaits the
\* confirmation of the first occurrence with the second occurrence still to
\* do; the step after that confirmation adds no record and sends no second
\* confirmation; the ledger never holds the link twice.
C19_OneRecordOneConfirmation ==
    /\ extract_twitter_links(Strip(TextSameLinkTwice)) = <<LinkXA, LinkXA>>
    /\ [](\A c \in DOMAIN links : CountLink(links[c], LinkXA) <= 1)
    /\ [][\A p \in Handlers :
            LET c == tasks'[p].update.chat.i
            IN  /\ (tasks[p].pc # "reply_text" /\ tasks'[p].pc = "reply_text"
                      /\ HasSameLinkTwice(tasks'[p])) =>
                      /\ CountLink(Ledger(links, c), LinkXA) = 0
                      /\ CountLink(links'[c], LinkXA) = 1
                      /\ Len(links'[c]) = Len(Ledger(links, c)) + 1
                      /\ tasks'[p].todo = <<LinkXA>>
                /\ (tasks[p].pc = "reply_text" /\ tasks'[p] # tasks[p]
                      /\ HasSameLinkTwice(tasks[p])) =>
                      /\ links' = links
                      /\ tasks'[p].pc = "idle"
                /\ (tasks[p].pc # "reply_text" /\ tasks'[p] # tasks[p]
                      /\ HasSameLinkTwice(tasks'[p]) /\ ~Checking(p)'
                      /\ CountLink(Ledger(links, c), LinkXA) = 0) =>
                      tasks'[p].pc = "reply_text"]_vars

\* the first occurrence has been stored and its confirmation is awaited while
\* the second occurrence is still to be handed to add_link
C19_Witness ==
    \E p \in Handlers :
        /\ tasks[p].pc = "reply_text"
        /\ HasSameLinkTwice(tasks[p])
        /\ tasks[p].todo = <<LinkXA>>
        /\ CountLink(links[tasks[p].update.chat.i], LinkXA) = 1

-----------------------------------------------------------------------------
(* Properties of the public operations as a whole.                         *)

\* the type of value each public operation returns
ReturnType ==
    [fn \in {"extract_twitter_links", "get_chat_links"} |-> "list"] @@
    [fn \in {"add_link", "clear_chat_links"} |-> "bool"] @@
    [fn \in {"format_summary", "format_link_added"} |-> "str"]

\* C16: no public operation raises, whatever its arguments, None and values
\* of the wrong type included: extract_twitter_links and get_chat_links return
\* a list, add_link and clear_chat_links a boolean, format_summary and
\* format_link_added a string; and a call that fails, that is every call but
\* an add_link or clear_chat_links that returns True, leaves the store as it
\* was.
C16_NoOperationRaises ==
    /\ [](probe.fn \in DOMAIN ReturnType =>
            /\ ~probe.out.raised
            /\ probe.out.type = ReturnType[probe.fn])
    /\ [][links' # links =>
            /\ probe'.fn \in {"add_link", "clear_chat_links"}
            /\ probe'.out.val = TRUE]_vars

\* extract_twitter_links has been called with a value that is no string, an
\* add_link with None as link has been turned down with a ledger in the store
C16_Witness ==
    /\ probe.fn = "extract_twitter_links"
    /\ ~IsStr(probe.arg[1])
    /\ probe.out.val = <<>>
    /\ links # LinkCollector_init

====
